---- MODULE Spec2Model ----
(***************************************************************************)
(* pyMeasureMap: the repeat-graph builder (extract.py), the multi-part     *)
(* consistency check (extract.py), the measures-table conversion           *)
(* (convert.py), the directory batch (utils.py) and the JSON codec         *)
(* (utils.py store_json, pymeasuremap.base MeasureMap).                    *)
(*                                                                         *)
(* Every specification below drives one of these programs; the variables   *)
(* of the other programs stay at their idle values.                        *)
(***************************************************************************)
EXTENDS Integers, Sequences, FiniteSets, TLC

VARIABLES
    \* ---- m21_part_to_measure_map (extract.py:14-86)
    pc,                 \* "loop" | "done" | "raised" ("idle" in the other specifications)
    nMeasures,          \* len(this_part.recurse().getElementsByClass(stream.Measure))
    measures,           \* the measures the loop has read so far: [leftBarline, rightBarline]
    sheet_measure_map,  \* list of measure dicts built so far
    go_back_to,
    go_forward_from,
    count,
    measure_map,        \* the returned MeasureMap (<<>> until returned)
    error,              \* "none" or the name of the exception that left the function
    \* ---- m21_stream_to_measure_map (extract.py:89-123)
    s_pc,               \* "start" | "check" | "done" | "raised"
    this_stream,        \* [kind, num_parts, check_parts_match]
    part_maps,          \* what building parts 0, 1, ... gave, in the order built
    part,               \* the loop variable of extract.py:118
    s_result,           \* the returned MeasureMap (NoMap until returned)
    s_error,            \* NoError or the exception that left the function
    \* ---- apply_function_to_directory (utils.py:60-103)
    d_pc,               \* "loop" | "done"
    paths,              \* what directory.rglob(file_regex) yields, in order
    d_i,                \* number of paths the for loop has taken
    attempted,          \* indices of the paths func was called on
    log,                \* module_logger records: [level, path]
    written,            \* to_json_file calls: [output_filepath, path]
    \* ---- measures_df2measure_map (convert.py:14-76)
    c_pc,               \* "start" | "done" | "raised"
    measures_df,        \* [columns, rows]
    c_result,           \* the returned MeasureMap (NoMap until returned)
    c_error,            \* NoConvertError or the exception raised
    \* ---- test_json_output (tests/test_base.py:29-40)
    j_pc,               \* "stored" | "loaded" | "written"
    j_src,              \* the measure map the stored file was written from
    j_file,             \* the text of the stored file, as JSON tokens
    j_mm,               \* MeasureMap.from_json_file(single_mm_path)
    j_tmp               \* the text mm.to_json_file(tmp_filepath) wrote

bvars == <<pc, nMeasures, measures, sheet_measure_map, go_back_to, go_forward_from,
           count, measure_map, error>>

svars == <<s_pc, this_stream, part_maps, part, s_result, s_error>>

dvars == <<d_pc, paths, d_i, attempted, log, written>>

cvars == <<c_pc, measures_df, c_result, c_error>>

jvars == <<j_pc, j_src, j_file, j_mm, j_tmp>>

vars == <<bvars, svars, dvars, cvars, jvars>>

Range(s) == {s[i] : i \in 1..Len(s)}

NoDuplicates(s) == \A i, j \in 1..Len(s) : i # j => s[i] # s[j]

(***************************************************************************)
(* Bounds                                                                  *)
(***************************************************************************)
MaxMeasures == 5

\* m21_stream_to_measure_map: parts of a score, measures of one of its parts
MaxParts == 3

MaxPartLen == 2

\* apply_function_to_directory: paths under the directory
MaxPaths == 3

\* measures_df2measure_map: rows of the measures table
MaxRows == 2

\* the JSON codec: measures of a stored measure map
MaxStored == 2

(***************************************************************************)
(* Inputs of the builder: what the loop reads of a music21 measure.        *)
(* leftBarline: "none" (None), "regular" (bar.Barline type regular),       *)
(* "double" (any other non-repeat barline), "start" (bar.Repeat start).    *)
(* rightBarline: "none" or "end" (bar.Repeat direction end).               *)
(***************************************************************************)
LeftBarlines == {"none", "regular", "double", "start"}

RightBarlines == {"none", "end"}

Measures == [leftBarline : LeftBarlines, rightBarline : RightBarlines]

\* extract.py:43-45
IsStartRepeat(measure) == measure.leftBarline = "start"

\* extract.py:46-48
IsEndRepeat(measure) == measure.rightBarline = "end"

\* extract.py:54  (truthiness of measure.leftBarline)
HasLeftBarline(measure) == measure.leftBarline # "none"

\* extract.py:56, 60
IsRegular(measure) == measure.leftBarline = "regular"

\* Python list indexing lst[i] with a possibly negative i: whether it is in range.
PyIndexOk(lst, i) == (i >= 0 /\ i < Len(lst)) \/ (i < 0 /\ -i <= Len(lst))

\* Python list indexing lst[i]: the 1-based position of a Sequence it reads.
PyIndex(lst, i) == IF i >= 0 THEN i + 1 ELSE Len(lst) + i + 1

\* extract.py:53  go_back_to after the start_repeat branch
NewGoBackTo(start_repeat, cnt, old) == IF start_repeat THEN cnt ELSE old

\* extract.py:64-66  the condition of the `next.append(count + 1)`
FallsThroughNoLen(end_repeat, cnt, gff, total) ==
    ~(end_repeat /\ cnt > gff /\ gff # 1)

FallsThroughNoOne(end_repeat, cnt, gff, total) ==
    cnt + 1 <= total /\ ~(end_repeat /\ cnt > gff)

FallsThrough(end_repeat, cnt, gff, total) ==
    cnt + 1 <= total /\ ~(end_repeat /\ cnt > gff /\ gff # 1)

\* extract.py:38, 62-67  the measure's own next list
OwnNextNoJump(end_repeat, gbt, cnt, gff, total) ==
    IF FallsThrough(end_repeat, cnt, gff, total) THEN <<cnt + 1>> ELSE <<>>

OwnNextSwapped(end_repeat, gbt, cnt, gff, total) ==
    (IF FallsThrough(end_repeat, cnt, gff, total) THEN <<cnt + 1>> ELSE <<>>)
    \o (IF end_repeat THEN <<gbt>> ELSE <<>>)

OwnNext(end_repeat, gbt, cnt, gff, total) ==
    (IF end_repeat THEN <<gbt>> ELSE <<>>)
    \o (IF FallsThrough(end_repeat, cnt, gff, total) THEN <<cnt + 1>> ELSE <<>>)

\* extract.py:59  sheet_measure_map[go_forward_from - 1]["next"].append(count)
AppendNext(sheet, gff, cnt) ==
    LET i == PyIndex(sheet, gff - 1)
    IN  [sheet EXCEPT ![i].next = Append(@, cnt)]

(***************************************************************************)
(* One pass of the loop body, extract.py:36-84, on the loop's state        *)
(* st = [sheet, go_back_to, go_forward_from, count, error].                *)
(***************************************************************************)
LoopBody(st, measure, total) ==
    LET start_repeat == IsStartRepeat(measure)
        end_repeat == IsEndRepeat(measure)
        cnt == st.count
        gbt == NewGoBackTo(start_repeat, cnt, st.go_back_to)
        \* extract.py:54-57: the elif reads sheet_measure_map[count - 2]
        readsPrev == ~start_repeat /\ HasLeftBarline(measure) /\ IsRegular(measure)
        raises == readsPrev /\ ~PyIndexOk(st.sheet, cnt - 2)
        prevEnd == readsPrev /\ ~raises
                   /\ st.sheet[PyIndex(st.sheet, cnt - 2)].end_repeat
        \* extract.py:59 raises too when go_forward_from - 1 is out of range
        raises2 == prevEnd /\ ~PyIndexOk(st.sheet, st.go_forward_from - 1)
        sheet1 == IF prevEnd /\ ~raises2
                  THEN AppendNext(st.sheet, st.go_forward_from, cnt)
                  ELSE st.sheet
        gff == IF readsPrev /\ ~raises /\ ~prevEnd THEN cnt - 1 ELSE st.go_forward_from
        measure_dict == [count |-> cnt,
                         start_repeat |-> start_repeat,
                         end_repeat |-> end_repeat,
                         next |-> OwnNext(end_repeat, gbt, cnt, gff, total)]
    IN  IF raises \/ raises2
        THEN [st EXCEPT !.go_back_to = gbt, !.error = "IndexError"]
        ELSE [sheet |-> Append(sheet1, measure_dict),
              go_back_to |-> gbt,
              go_forward_from |-> gff,
              count |-> cnt + 1,
              error |-> "none"]

\* extract.py:29-33  the state before the loop
LoopStart == [sheet |-> <<>>, go_back_to |-> 1, go_forward_from |-> 1,
              count |-> 1, error |-> "none"]

\* pymeasuremap.base MeasureMap.from_dicts (extract.py:86): the measure
\* entities in the order of the dicts.
from_dicts(dicts) == dicts

(***************************************************************************)
(* m21_part_to_measure_map as a state machine: one step per measure.       *)
(***************************************************************************)
IdleBuilder ==
    /\ pc = "idle"
    /\ nMeasures = 0
    /\ measures = <<>>
    /\ sheet_measure_map = <<>>
    /\ go_back_to = 1
    /\ go_forward_from = 1
    /\ count = 1
    /\ measure_map = <<>>
    /\ error = "none"

NoMap == <<>>

NoError == [type |-> "none", part |-> 0]

IdleStream ==
    /\ s_pc = "idle"
    /\ this_stream = [kind |-> "Part", num_parts |-> 0, check_parts_match |-> TRUE]
    /\ part_maps = <<>>
    /\ part = 0
    /\ s_result = NoMap
    /\ s_error = NoError

IdleBatch ==
    /\ d_pc = "idle"
    /\ paths = <<>>
    /\ d_i = 0
    /\ attempted = {}
    /\ log = <<>>
    /\ written = <<>>

NoConvertError == [type |-> "none", column |-> ""]

IdleConvert ==
    /\ c_pc = "idle"
    /\ measures_df = [columns |-> {}, rows |-> <<>>]
    /\ c_result = NoMap
    /\ c_error = NoConvertError

IdleCodec ==
    /\ j_pc = "idle"
    /\ j_src = NoMap
    /\ j_file = <<>>
    /\ j_mm = NoMap
    /\ j_tmp = <<>>

Init ==
    /\ IdleStream
    /\ IdleBatch
    /\ IdleConvert
    /\ IdleCodec
    /\ pc = "loop"
    /\ nMeasures \in 1..MaxMeasures
    /\ measures = <<>>
    /\ sheet_measure_map = LoopStart.sheet
    /\ go_back_to = LoopStart.go_back_to
    /\ go_forward_from = LoopStart.go_forward_from
    /\ count = LoopStart.count
    /\ measure_map = <<>>
    /\ error = "none"

\* extract.py:35-84  one iteration of the for loop
ProcessMeasure ==
    /\ pc = "loop"
    /\ count <= nMeasures
    /\ \E measure \in Measures :
         LET st == [sheet |-> sheet_measure_map, go_back_to |-> go_back_to,
                    go_forward_from |-> go_forward_from, count |-> count,
                    error |-> "none"]
             nx == LoopBody(st, measure, nMeasures)
         IN  /\ measures' = Append(measures, measure)
             /\ sheet_measure_map' = nx.sheet
             /\ go_back_to' = nx.go_back_to
             /\ go_forward_from' = nx.go_forward_from
             /\ count' = nx.count
             /\ error' = nx.error
             /\ pc' = IF nx.error = "none" THEN "loop" ELSE "raised"
    /\ UNCHANGED <<nMeasures, measure_map>>
    /\ UNCHANGED <<svars, dvars, cvars, jvars>>

\* extract.py:86
Return ==
    /\ pc = "loop"
    /\ count > nMeasures
    /\ measure_map' = from_dicts(sheet_measure_map)
    /\ pc' = "done"
    /\ UNCHANGED <<nMeasures, measures, sheet_measure_map, go_back_to,
                   go_forward_from, count, error>>
    /\ UNCHANGED <<svars, dvars, cvars, jvars>>

Next == ProcessMeasure \/ Return

Spec == Init /\ [][Next]_vars

(***************************************************************************)
(* m21_part_to_measure_map as a function of a part's measures: the loop    *)
(* run to its end or to the exception that leaves it.                      *)
(***************************************************************************)
RECURSIVE RunLoop(_, _, _)
RunLoop(st, ms, k) ==
    IF k > Len(ms) \/ st.error # "none"
    THEN st
    ELSE RunLoop(LoopBody(st, ms[k], Len(ms)), ms, k + 1)

\* extract.py:14-86; extract.py:32 reads measure [0] of the part
m21_part_to_measure_map(ms) ==
    IF Len(ms) = 0
    THEN [error |-> "IndexError", map |-> NoMap]
    ELSE LET st == RunLoop(LoopStart, ms, 1)
         IN  IF st.error # "none"
             THEN [error |-> st.error, map |-> NoMap]
             ELSE [error |-> "none", map |-> from_dicts(st.sheet)]

\* The parts a score can hold: 1..maxLen measures each.
PartInputs(maxLen) == UNION {[1..n -> Measures] : n \in 1..maxLen}

\* extract.py:120  part_measure_map != measure_map (MeasureMap equality:
\* the entities pairwise equal, in order)
MapsDiffer(part_measure_map, mm) == part_measure_map # mm

\* extract.py:121
PartsDoNotMatch(p) == [type |-> "ValueError: Parts 0 and {part} do not match", part |-> p]

\* extract.py:106
OnlyAccepts == [type |-> "ValueError: Only accepts a stream.Part or stream.Score", part |-> 0]

\* an exception of m21_part_to_measure_map passing through
Propagated(err) == [type |-> err, part |-> 0]

StreamKinds == {"Part", "Score", "Other"}

InitStream ==
    /\ IdleBuilder
    /\ IdleBatch
    /\ IdleConvert
    /\ IdleCodec
    /\ s_pc = "start"
    /\ this_stream \in [kind : StreamKinds, num_parts : 1..MaxParts,
                        check_parts_match : BOOLEAN]
    /\ part_maps = <<>>
    /\ part = 0
    /\ s_result = NoMap
    /\ s_error = NoError

\* extract.py:102-116  up to the loop over the other parts
StreamStart ==
    /\ s_pc = "start"
    /\ \/ /\ this_stream.kind = "Other"
          /\ s_pc' = "raised"
          /\ s_error' = OnlyAccepts
          /\ UNCHANGED <<part_maps, part, s_result>>
       \/ /\ this_stream.kind \in {"Part", "Score"}
          /\ \E ms \in PartInputs(MaxPartLen) :
               LET built == m21_part_to_measure_map(ms)
               IN  /\ part_maps' = <<built>>
                   /\ IF built.error # "none"
                      THEN /\ s_pc' = "raised"
                           /\ s_error' = Propagated(built.error)
                           /\ UNCHANGED <<part, s_result>>
                      ELSE IF \/ this_stream.kind = "Part"
                              \/ ~this_stream.check_parts_match
                              \/ this_stream.num_parts < 2
                      THEN /\ s_pc' = "done"
                           /\ s_result' = built.map
                           /\ UNCHANGED <<part, s_error>>
                      ELSE /\ s_pc' = "check"
                           /\ part' = 1
                           /\ UNCHANGED <<s_result, s_error>>
    /\ UNCHANGED this_stream
    /\ UNCHANGED <<bvars, dvars, cvars, jvars>>

\* extract.py:118-121  one iteration of the loop over parts 1, 2, ...
StreamCheckPart ==
    /\ s_pc = "check"
    /\ part < this_stream.num_parts
    /\ \E ms \in PartInputs(MaxPartLen) :
         LET built == m21_part_to_measure_map(ms)
         IN  /\ part_maps' = Append(part_maps, built)
             /\ IF built.error # "none"
                THEN /\ s_pc' = "raised"
                     /\ s_error' = Propagated(built.error)
                     /\ UNCHANGED part
                ELSE IF MapsDiffer(built.map, part_maps[1].map)
                THEN /\ s_pc' = "raised"
                     /\ s_error' = PartsDoNotMatch(part)
                     /\ UNCHANGED part
                ELSE /\ s_pc' = "check"
                     /\ part' = part + 1
                     /\ UNCHANGED s_error
    /\ UNCHANGED <<this_stream, s_result>>
    /\ UNCHANGED <<bvars, dvars, cvars, jvars>>

\* extract.py:123
StreamReturn ==
    /\ s_pc = "check"
    /\ part >= this_stream.num_parts
    /\ s_pc' = "done"
    /\ s_result' = part_maps[1].map
    /\ UNCHANGED <<this_stream, part_maps, part, s_error>>
    /\ UNCHANGED <<bvars, dvars, cvars, jvars>>

NextStream == StreamStart \/ StreamCheckPart \/ StreamReturn

SpecStream == InitStream /\ [][NextStream]_vars

(***************************************************************************)
(* apply_function_to_directory (utils.py:60-103).  A path is what the loop *)
(* reads of it: its stem, whether its name ends with one of the            *)
(* extensions, and whether func raises an Exception on it.  The directory  *)
(* arguments are directories (resolve_dir returns), all paths lie in one   *)
(* folder, and writing the output file succeeds.                           *)
(***************************************************************************)
Stems == {"a", "b"}

Paths == [stem : Stems, has_extension : BOOLEAN, func_raises : BOOLEAN]

PathLists(maxLen) == UNION {[1..n -> Paths] : n \in 0..maxLen}

\* utils.py:81  the test of the `continue` at utils.py:85
ExtensionSelected(filepath) == filepath.has_extension

\* utils.py:86-88  whether func(filepath) leaves through the except clause
FuncFails(filepath) == filepath.func_raises

\* utils.py:125-137  output_folder / (filepath.stem + measure_map_extension)
make_measure_map_filepath(filepath) == <<filepath.stem, ".mm.json">>

\* utils.py:88-92  what the except clause does to the state of the batch:
\* a warning, and on to the next path
AbortOnFailure(i) == [d_pc |-> "raised", log |-> log]

OnFailure(i) ==
    [d_pc |-> "loop", log |-> Append(log, [level |-> "warning", path |-> i])]

InitBatch ==
    /\ IdleBuilder
    /\ IdleStream
    /\ IdleConvert
    /\ IdleCodec
    /\ d_pc = "loop"
    /\ paths \in PathLists(MaxPaths)
    /\ d_i = 0
    /\ attempted = {}
    /\ log = <<>>
    /\ written = <<>>

\* utils.py:80-103  one iteration of the for loop
BatchStep ==
    /\ d_pc = "loop"
    /\ d_i < Len(paths)
    /\ LET i == d_i + 1
           filepath == paths[i]
       IN  /\ d_i' = i
           /\ IF ~ExtensionSelected(filepath)
              THEN /\ log' = Append(log, [level |-> "debug", path |-> i])
                   /\ UNCHANGED <<d_pc, attempted, written>>
              ELSE /\ attempted' = attempted \cup {i}
                   /\ IF FuncFails(filepath)
                      THEN /\ d_pc' = OnFailure(i).d_pc
                           /\ log' = OnFailure(i).log
                           /\ UNCHANGED written
                      ELSE /\ written' = Append(written,
                                  [output_filepath |-> make_measure_map_filepath(filepath),
                                   path |-> i])
                           /\ log' = Append(log, [level |-> "info", path |-> i])
                           /\ UNCHANGED d_pc
    /\ UNCHANGED paths
    /\ UNCHANGED <<bvars, svars, cvars, jvars>>

\* utils.py:80  the iterator is exhausted: the function returns
BatchReturn ==
    /\ d_pc = "loop"
    /\ d_i >= Len(paths)
    /\ d_pc' = "done"
    /\ UNCHANGED <<paths, d_i, attempted, log, written>>
    /\ UNCHANGED <<bvars, svars, cvars, jvars>>

NextBatch == BatchStep \/ BatchReturn

\* The loop is sequential code: a step that can be taken is taken.
SpecBatch == InitBatch /\ [][NextBatch]_vars /\ WF_vars(NextBatch)

(***************************************************************************)
(* measures_df2measure_map (convert.py:14-76).  The table is what load_tsv *)
(* returns: a Fraction is <<numerator, denominator>>, a missing value (NA, *)
(* None) is <<>>, a float is <<"float", q>> for the value q/4.             *)
(***************************************************************************)
NA == <<>>

\* float(Fraction), exact for the denominators 1, 2 and 4
ToFloat(fraction) == <<"float", (fraction[1] * 4) \div fraction[2]>>

\* Fraction * 4.0
TimesFour(fraction) == <<"float", (fraction[1] * 16) \div fraction[2]>>

\* str(int)
Str(n) == <<"str", n>>

\* convert.py:37-44  chr(int(val) + 96), "" for a missing volta
make_repeat_char(val) ==
    IF val = NA THEN ""
    ELSE IF val[1] = 1 THEN "a"
    ELSE IF val[1] = 2 THEN "b"
    ELSE "c"

\* convert.py:60-61  Series.str.contains(word).fillna(False)
Contains(repeats, word) ==
    \/ repeats = word
    \/ repeats = "startend" /\ word \in {"start", "end"}

QuarterbeatValues == {NA, <<0, 1>>, <<3, 2>>}

VoltaValues == {NA, <<1>>}

RepeatsValues == {"NA", "start", "end", "startend"}

Rows == [quarterbeats : QuarterbeatValues,
         quarterbeats_all_endings : QuarterbeatValues,
         volta : VoltaValues,
         repeats : RepeatsValues]

RowLists(maxLen) == UNION {[1..n -> Rows] : n \in 1..maxLen}

OptionalColumns == {"quarterbeats_all_endings", "volta"}

\* A column the table lacks has no values in the rows.
WellFormedTable(df) ==
    \A i \in 1..Len(df.rows) :
        /\ "quarterbeats_all_endings" \notin df.columns =>
               df.rows[i].quarterbeats_all_endings = NA
        /\ "volta" \notin df.columns => df.rows[i].volta = NA

\* convert.py:51-54  the column that becomes qstamp
qstamp_col_quarterbeats(df) == "quarterbeats"

qstamp_col(df) ==
    IF "quarterbeats_all_endings" \in df.columns
    THEN "quarterbeats_all_endings"
    ELSE "quarterbeats"

\* convert.py:56
NAValues(col) == [type |-> "ValueError: There are NA values in the column", column |-> col]

\* convert.py:55  qstamp_col.isna().any()
AnyNA(df, col) == \E i \in 1..Len(df.rows) : df.rows[i][col] = NA

\* pymeasuremap.base MeasureMap.from_array (convert.py:64-76): one entity
\* per position of the column arrays.
from_array(n, ID, cnt, qstamp, number, name, start_repeat, end_repeat, nxt) ==
    [i \in 1..n |->
        [ID |-> ID[i], count |-> cnt[i], qstamp |-> qstamp[i], number |-> number[i],
         name |-> name[i], time_signature |-> "4/4",
         nominal_length |-> TimesFour(<<4, 4>>),
         actual_length |-> TimesFour(<<1, 1>>),
         start_repeat |-> start_repeat[i], end_repeat |-> end_repeat[i],
         next |-> nxt[i]]]

\* convert.py:30-76  every row has mc = mn = its position, timesig 4/4,
\* act_dur 1 and next (mc + 1,), () in the last row
measures_df2measure_map(df) ==
    LET n == Len(df.rows)
        col == qstamp_col(df)
    IN  IF AnyNA(df, col)
        THEN [error |-> NAValues(col), map |-> NoMap]
        ELSE [error |-> NoConvertError,
              map |-> from_array(
                  n,
                  [i \in 1..n |-> Str(i)],
                  [i \in 1..n |-> i],
                  [i \in 1..n |-> ToFloat(df.rows[i][col])],
                  [i \in 1..n |-> i],
                  [i \in 1..n |->
                      <<Str(i), IF "volta" \in df.columns
                                THEN make_repeat_char(df.rows[i].volta) ELSE "">>],
                  [i \in 1..n |-> Contains(df.rows[i].repeats, "start")],
                  [i \in 1..n |-> Contains(df.rows[i].repeats, "end")],
                  [i \in 1..n |-> IF i < n THEN <<i + 1>> ELSE <<>>])]

InitConvert ==
    /\ IdleBuilder
    /\ IdleStream
    /\ IdleBatch
    /\ IdleCodec
    /\ c_pc = "start"
    /\ measures_df \in [columns : SUBSET OptionalColumns, rows : RowLists(MaxRows)]
    /\ WellFormedTable(measures_df)
    /\ c_result = NoMap
    /\ c_error = NoConvertError

\* convert.py:14-76  the call
Convert ==
    /\ c_pc = "start"
    /\ LET r == measures_df2measure_map(measures_df)
       IN  /\ c_pc' = IF r.error = NoConvertError THEN "done" ELSE "raised"
           /\ c_result' = r.map
           /\ c_error' = r.error
    /\ UNCHANGED measures_df
    /\ UNCHANGED <<bvars, svars, dvars, jvars>>

NextConvert == Convert

SpecConvert == InitConvert /\ [][NextConvert]_vars

(***************************************************************************)
(* The JSON codec.  A JSON value is a scalar [t, s, n] (t one of "int",    *)
(* "float", "str", "bool"; a float n stands for n/4), a list [t, items] or *)
(* a dict [t, keys, vals] in insertion order.  A text is the sequence of   *)
(* its tokens <<kind, string, number>>; <<"nl", "", k>> is a line break    *)
(* followed by k spaces.                                                   *)
(***************************************************************************)
JInt(n) == [t |-> "int", s |-> "", n |-> n]

JFloat(q) == [t |-> "float", s |-> "", n |-> q]

JStr(str) == [t |-> "str", s |-> str, n |-> 0]

JBool(b) == [t |-> "bool", s |-> "", n |-> IF b THEN 1 ELSE 0]

JList(items) == [t |-> "list", items |-> items]

JDict(keys, vals) == [t |-> "dict", keys |-> keys, vals |-> vals]

Tok(kind) == <<kind, "", 0>>

Newline(k) == <<"nl", "", k>>

\* json.dump's literal of a scalar: an int prints without, a float with a
\* fractional part (4.0 is "4.0")
ScalarTokenShortest(v) ==
    IF v.t = "float" /\ v.n % 4 = 0 THEN <<"int", "", v.n \div 4>> ELSE <<v.t, v.s, v.n>>

ScalarToken(v) == <<v.t, v.s, v.n>>

RECURSIVE json_dump(_, _, _), DumpItems(_, _, _, _), DumpMembers(_, _, _, _, _)
\* utils.py:260  json.dump(data, f, indent=indent) at nesting depth `depth`
json_dump(v, indent, depth) ==
    IF v.t = "list"
    THEN IF v.items = <<>>
         THEN <<Tok("["), Tok("]")>>
         ELSE <<Tok("[")>> \o DumpItems(v.items, 1, indent, depth + 1)
              \o <<Newline(indent * depth), Tok("]")>>
    ELSE IF v.t = "dict"
    THEN IF v.keys = <<>>
         THEN <<Tok("{"), Tok("}")>>
         ELSE <<Tok("{")>> \o DumpMembers(v.keys, v.vals, 1, indent, depth + 1)
              \o <<Newline(indent * depth), Tok("}")>>
    ELSE <<ScalarToken(v)>>

DumpItems(items, k, indent, depth) ==
    IF k > Len(items) THEN <<>>
    ELSE <<Newline(indent * depth)>> \o json_dump(items[k], indent, depth)
         \o (IF k < Len(items) THEN <<Tok(",")>> ELSE <<>>)
         \o DumpItems(items, k + 1, indent, depth)

DumpMembers(keys, vals, k, indent, depth) ==
    IF k > Len(keys) THEN <<>>
    ELSE <<Newline(indent * depth), <<"key", keys[k], 0>>, Tok(":")>>
         \o json_dump(vals[k], indent, depth)
         \o (IF k < Len(keys) THEN <<Tok(",")>> ELSE <<>>)
         \o DumpMembers(keys, vals, k + 1, indent, depth)

\* utils.py:241  indent: int = 2
DefaultIndent == 2

\* utils.py:238-260  the text store_json writes to filepath
store_json(data) == json_dump(data, DefaultIndent, 0)

\* json.load: white space between tokens is skipped
SkipNewline(toks, p) == IF p <= Len(toks) /\ toks[p][1] = "nl" THEN p + 1 ELSE p

RECURSIVE ParseValue(_, _), ParseItems(_, _, _), ParseMembers(_, _, _, _)
ParseValue(toks, p) ==
    LET tk == toks[p]
        q == SkipNewline(toks, p + 1)
    IN  IF tk[1] = "["
        THEN IF toks[q][1] = "]"
             THEN [val |-> JList(<<>>), pos |-> q + 1]
             ELSE ParseItems(toks, q, <<>>)
        ELSE IF tk[1] = "{"
        THEN IF toks[q][1] = "}"
             THEN [val |-> JDict(<<>>, <<>>), pos |-> q + 1]
             ELSE ParseMembers(toks, q, <<>>, <<>>)
        ELSE [val |-> [t |-> tk[1], s |-> tk[2], n |-> tk[3]], pos |-> p + 1]

ParseItems(toks, p, acc) ==
    LET r == ParseValue(toks, p)
        items == Append(acc, r.val)
        q == SkipNewline(toks, r.pos)
    IN  IF toks[q][1] = ","
        THEN ParseItems(toks, SkipNewline(toks, q + 1), items)
        ELSE [val |-> JList(items), pos |-> q + 1]

ParseMembers(toks, p, keys, vals) ==
    LET r == ParseValue(toks, p + 2)
        ks == Append(keys, toks[p][2])
        vs == Append(vals, r.val)
        q == SkipNewline(toks, r.pos)
    IN  IF toks[q][1] = ","
        THEN ParseMembers(toks, SkipNewline(toks, q + 1), ks, vs)
        ELSE [val |-> JDict(ks, vs), pos |-> q + 1]

\* json.load(f)
json_load(toks) == ParseValue(toks, 1).val

\* The fields of a measure entity, in the order of the persisted record.
FieldOrder == <<"count", "qstamp", "number", "name", "time_signature",
                "nominal_length", "actual_length", "start_repeat", "end_repeat",
                "next">>

\* the value a dict holds under a key
DictGet(d, key) == d.vals[CHOOSE k \in 1..Len(d.keys) : d.keys[k] = key]

\* pymeasuremap.base MeasureMap.from_dicts on loaded JSON: the entity of a
\* record holds the record's value of each field.
EntityOfDict(d) == [f \in Range(FieldOrder) |-> DictGet(d, f)]

\* pymeasuremap.base: the record of an entity, its fields in FieldOrder.
DictOfEntity(m) == JDict(FieldOrder, [k \in 1..Len(FieldOrder) |-> m[FieldOrder[k]]])

\* pymeasuremap.base MeasureMap.from_json_file
from_json_file(text) ==
    LET data == json_load(text)
    IN  [i \in 1..Len(data.items) |-> EntityOfDict(data.items[i])]

\* pymeasuremap.base MeasureMap.to_json_file
to_json_file(mm) ==
    store_json(JList([i \in 1..Len(mm) |-> DictOfEntity(mm[i])]))

\* The valid measure maps of n measures the stored files encode.
NextChoices(i, n) ==
    {<<>>, <<1>>} \cup (IF i < n THEN {<<i + 1>>, <<1, i + 1>>} ELSE {})

StoredEntities(i, n) ==
    {[f \in Range(FieldOrder) |->
        CASE f = "count" -> JInt(i)
          [] f = "qstamp" -> JFloat(q)
          [] f = "number" -> JInt(i)
          [] f = "name" -> JStr("n")
          [] f = "time_signature" -> JStr("4/4")
          [] f = "nominal_length" -> JFloat(16)
          [] f = "actual_length" -> JFloat(16)
          [] f = "start_repeat" -> JBool(sr)
          [] f = "end_repeat" -> JBool(er)
          [] f = "next" -> JList([k \in 1..Len(nx) |-> JInt(nx[k])])] :
        q \in {16 * (i - 1), 16 * (i - 1) + 6}, sr \in BOOLEAN, er \in BOOLEAN,
        nx \in NextChoices(i, n)}

RECURSIVE StoredMapsOf(_, _)
StoredMapsOf(n, k) ==
    IF k = 0 THEN {<<>>}
    ELSE {Append(mm, e) : mm \in StoredMapsOf(n, k - 1), e \in StoredEntities(k, n)}

StoredMaps(maxLen) == UNION {StoredMapsOf(n, n) : n \in 1..maxLen}

InitCodec ==
    /\ IdleBuilder
    /\ IdleStream
    /\ IdleBatch
    /\ IdleConvert
    /\ j_pc = "stored"
    /\ j_src \in StoredMaps(MaxStored)
    /\ j_file = to_json_file(j_src)
    /\ j_mm = NoMap
    /\ j_tmp = <<>>

\* tests/test_base.py:30
Load ==
    /\ j_pc = "stored"
    /\ j_mm' = from_json_file(j_file)
    /\ j_pc' = "loaded"
    /\ UNCHANGED <<j_src, j_file, j_tmp>>
    /\ UNCHANGED <<bvars, svars, dvars, cvars>>

\* tests/test_base.py:31-32
Store ==
    /\ j_pc = "loaded"
    /\ j_tmp' = to_json_file(j_mm)
    /\ j_pc' = "written"
    /\ UNCHANGED <<j_src, j_file, j_mm>>
    /\ UNCHANGED <<bvars, svars, dvars, cvars>>

NextCodec == Load \/ Store

SpecCodec == InitCodec /\ [][NextCodec]_vars

(***************************************************************************)
(* Properties of the repeat-graph builder                                  *)
(***************************************************************************)
\* The count the spec's rule 1 gives as repeat_target at measure i, from the
\* input alone: the last measure up to i that opens a repeat, or 1.
RepeatTargetIn(ms, i) ==
    LET opens == {k \in 1..i : ms[k].leftBarline = "start"}
    IN  IF opens = {} THEN 1 ELSE CHOOSE k \in opens : \A l \in opens : l <= k

RepeatTargetAt(i) == RepeatTargetIn(measures, i)

\* No measure carries the plain left barline by which the builder recognises
\* an alternate ending.
NoVoltas == \A i \in 1..Len(measures) : measures[i].leftBarline # "regular"

\* C1: in every map the builder returns, every value of every measure's next
\* list is the count of a measure of that map, a number in 1..N.
C1_NextClosure ==
    pc = "done" =>
        \A i \in 1..Len(measure_map) :
            \A v \in Range(measure_map[i].next) :
                /\ v \in 1..nMeasures
                /\ \E k \in 1..Len(measure_map) : measure_map[k].count = v

\* C1 witness: a returned map of at least three measures whose last measure
\* closes a repeat and in which an earlier measure has two successors.
C1_Witness ==
    /\ pc = "done"
    /\ nMeasures >= 3
    /\ measure_map[nMeasures].end_repeat
    /\ \E i \in 1..(nMeasures - 1) : Len(measure_map[i].next) >= 2

\* C2 as claimed: at least 5 measures, start_repeat on measure 1, end_repeat on
\* measure 4 and no voltas give measure 4 the next list [1, 5] and measure 1
\* the next list [2].
C2_RepeatExampleAsClaimed ==
    ( /\ pc = "done"
      /\ nMeasures >= 5
      /\ measures[1].leftBarline = "start"
      /\ measures[4].rightBarline = "end"
      /\ NoVoltas )
    => /\ measure_map[4].next = <<1, 5>>
       /\ measure_map[1].next = <<2>>

\* Measures 1-4 carry no repeat sign besides the start_repeat of measure 1 and
\* the end_repeat of measure 4.
OnlyRepeatIsOneToFour ==
    /\ measures[1].leftBarline = "start"
    /\ measures[4].rightBarline = "end"
    /\ \A i \in 1..3 : measures[i].rightBarline # "end"
    /\ \A i \in 2..4 : measures[i].leftBarline # "start"

\* C2 amended: at least 5 measures, start_repeat on measure 1 and end_repeat on
\* measure 4 as the only repeat signs of measures 1-4, and no voltas, give
\* measure 4 the next list [1, 5] and measure 1 the next list [2].
C2_RepeatExample ==
    ( /\ pc = "done"
      /\ nMeasures >= 5
      /\ OnlyRepeatIsOneToFour
      /\ NoVoltas )
    => /\ measure_map[4].next = <<1, 5>>
       /\ measure_map[1].next = <<2>>

\* C2 witness: a returned map of the repeat example.
C2_Witness ==
    /\ pc = "done"
    /\ nMeasures >= 5
    /\ OnlyRepeatIsOneToFour
    /\ NoVoltas
    /\ measure_map[4].next = <<1, 5>>

\* C3: the builder never raises, whatever the barline signals of a non-empty
\* sequence of measures are.
C3_NeverRaises == nMeasures >= 1 => pc # "raised"

\* C4: in every map the builder returns, no measure's next list holds a value
\* twice.
C4_NextDeduplicated ==
    pc = "done" =>
        \A i \in 1..Len(measure_map) : NoDuplicates(measure_map[i].next)

\* C5: in every map the builder returns, only the final measure can have an
\* empty next list; the final measure's next is empty when it has no
\* end_repeat, and holds the repeat target alone, never count + 1, when it has.
C5_FinalMeasure ==
    pc = "done" =>
        /\ \A i \in 1..Len(measure_map) :
              measure_map[i].next = <<>> => i = nMeasures
        /\ LET last == measure_map[nMeasures]
           IN  /\ ~last.end_repeat => last.next = <<>>
               /\ last.end_repeat =>
                     /\ last.next = <<RepeatTargetAt(nMeasures)>>
                     /\ (nMeasures + 1) \notin Range(last.next)

\* C5 witness: a returned map whose final measure closes a repeat opened after
\* measure 1, next to an earlier end_repeat measure whose fall-through was
\* suppressed.
C5_Witness ==
    /\ pc = "done"
    /\ nMeasures >= 3
    /\ measure_map[nMeasures].end_repeat
    /\ measure_map[nMeasures].next # <<1>>
    /\ \E i \in 1..(nMeasures - 1) :
          measure_map[i].end_repeat /\ Len(measure_map[i].next) = 1

\* C10: when the loop has processed a measure that has a following measure,
\* count + 1 is in that measure's own next list exactly if not (end_repeat and
\* count > resume_from and resume_from # 1), resume_from being
\* go_forward_from as the step leaves it; with both appended the next list is
\* the repeat jump followed by count + 1.
C10_FallThroughRule ==
    [][ (pc = "loop" /\ pc' = "loop" /\ count' = count + 1 /\ count < nMeasures) =>
        LET m == sheet_measure_map'[count]
            suppressed == /\ m.end_repeat
                          /\ count > go_forward_from'
                          /\ go_forward_from' # 1
        IN  /\ ((count + 1) \in Range(m.next)) <=> ~suppressed
            /\ (m.end_repeat /\ ~suppressed) =>
                   m.next = <<RepeatTargetIn(measures', count), count + 1>>
            /\ (m.end_repeat /\ suppressed) => m.next = <<RepeatTargetIn(measures', count)>>
            /\ ~m.end_repeat => m.next = <<count + 1>>
      ]_vars

\* C10 witness: the loop has processed an end_repeat measure whose fall-through
\* was suppressed and an end_repeat measure that got both the jump and
\* count + 1, each with a following measure.
C10_Witness ==
    /\ pc = "loop"
    /\ \E i, j \in 1..Len(sheet_measure_map) :
          /\ i < nMeasures /\ j < nMeasures
          /\ sheet_measure_map[i].end_repeat
          /\ (i + 1) \notin Range(sheet_measure_map[i].next)
          /\ sheet_measure_map[j].end_repeat
          /\ Len(sheet_measure_map[j].next) = 2
          /\ sheet_measure_map[j].next[2] = j + 1

\* The next lists of the measures before position cnt are the same in the
\* sheets a and b, but for the one at position `but` (0: none excepted).
EarlierNextUnchanged(a, b, cnt, but) ==
    \A i \in 1..(cnt - 1) : i # but => b[i].next = a[i].next

\* What the spec's rule 2 makes of resume_from and of the earlier next lists
\* in a loop step that reads the measure m as measure cnt.
Rule2Frame(m, cnt) ==
    LET plain == m.leftBarline = "regular"
        prevEnd == cnt >= 2 /\ sheet_measure_map[cnt - 1].end_repeat
    IN  /\ pc' = "loop"
        /\ (plain /\ prevEnd) =>
              /\ go_forward_from' = go_forward_from
              /\ sheet_measure_map'[go_forward_from].next =
                     Append(sheet_measure_map[go_forward_from].next, cnt)
              /\ EarlierNextUnchanged(sheet_measure_map, sheet_measure_map', cnt,
                                      go_forward_from)
        /\ (plain /\ ~prevEnd) =>
              /\ go_forward_from' = cnt - 1
              /\ EarlierNextUnchanged(sheet_measure_map, sheet_measure_map', cnt, 0)
        /\ ~plain =>
              /\ go_forward_from' = go_forward_from
              /\ EarlierNextUnchanged(sheet_measure_map, sheet_measure_map', cnt, 0)

\* The volta example: a repeat over measures 1-4 as the only repeat signs and
\* the only plain left barlines on measures 5 and 6.  It takes six measures:
\* it is reached with MaxMeasures at 6 or more.
VoltaExample ==
    /\ pc = "done"
    /\ nMeasures >= 6
    /\ OnlyRepeatIsOneToFour
    /\ \A i \in 1..4 : measures[i].leftBarline # "regular"
    /\ measures[5].leftBarline = "regular"
    /\ measures[6].leftBarline = "regular"

VoltaExampleEdges ==
    VoltaExample =>
        /\ 1 \in Range(measure_map[4].next)
        /\ 6 \in Range(measure_map[5].next)

\* C11: every loop step on a measure goes through and has the effect of rule 2
\* on resume_from (go_forward_from) and on the earlier measures' next lists:
\* with a plain left barline and no start_repeat, after an end_repeat measure
\* the count is appended to the next of the measure indexed by resume_from and
\* resume_from stays, otherwise resume_from becomes count - 1 and no earlier
\* next changes; any other measure leaves resume_from and the earlier next
\* lists as they are.  In the volta example measure 4's next includes 1 and
\* measure 5's next includes 6.
C11_Rule2FrameEffect ==
    /\ [][ (pc = "loop" /\ Len(measures') = Len(measures) + 1) =>
               Rule2Frame(measures'[count], count) ]_vars
    /\ []VoltaExampleEdges

\* The same for the steps on the measures after the first.
C11_HoldsAfterFirstMeasure ==
    /\ [][ (pc = "loop" /\ Len(measures') = Len(measures) + 1 /\ count >= 2) =>
               Rule2Frame(measures'[count], count) ]_vars
    /\ []VoltaExampleEdges

\* C12: in every map the builder returns, every measure after the first is in
\* the next list of some measure.
C12_EveryMeasureHasIncomingEdge ==
    pc = "done" =>
        \A c \in 2..Len(measure_map) :
            \E i \in 1..Len(measure_map) : c \in Range(measure_map[i].next)

\* The same for the inputs in which no fall-through is suppressed: no
\* end_repeat measure comes after a plain left barline on a measure past the
\* second that does not follow an end_repeat measure.
NoSuppression ==
    \A i \in 1..Len(measure_map) :
        measure_map[i].end_repeat => (i = nMeasures \/ (i + 1) \in Range(measure_map[i].next))

C12_HoldsWithoutSuppression ==
    (pc = "done" /\ NoSuppression) =>
        \A c \in 2..Len(measure_map) :
            \E i \in 1..Len(measure_map) : c \in Range(measure_map[i].next)

(***************************************************************************)
(* Properties of m21_stream_to_measure_map                                 *)
(***************************************************************************)
\* C8: for a score of several parts (checked for matching parts), the call
\* ends either returning the map, every part's map having been built and all
\* of them equal, or raising the consistency error that names the first part
\* whose map differs, returning no map.
C8_EqualOrConsistencyError ==
    ( /\ this_stream.kind = "Score"
      /\ this_stream.num_parts >= 2
      /\ this_stream.check_parts_match
      /\ s_pc \in {"done", "raised"} )
    => \/ /\ s_pc = "done"
          /\ Len(part_maps) = this_stream.num_parts
          /\ \A p \in 1..Len(part_maps) :
                /\ part_maps[p].error = "none"
                /\ part_maps[p].map = part_maps[1].map
          /\ s_result = part_maps[1].map
       \/ /\ s_pc = "raised"
          /\ s_result = NoMap
          /\ s_error = PartsDoNotMatch(s_error.part)
          /\ s_error.part + 1 = Len(part_maps)
          /\ \A p \in 1..Len(part_maps) : part_maps[p].error = "none"
          /\ part_maps[s_error.part + 1].map # part_maps[1].map
          /\ \A q \in 1..s_error.part : part_maps[q].map = part_maps[1].map

\* The same, for the calls in which building no part raised.
C8_HoldsWhenPartsBuild ==
    (\A p \in 1..Len(part_maps) : part_maps[p].error = "none")
    => C8_EqualOrConsistencyError

(***************************************************************************)
(* Properties of apply_function_to_directory                               *)
(***************************************************************************)
PathIndices == 1..Len(paths)

WarnedAbout(i) == \E k \in 1..Len(log) : log[k] = [level |-> "warning", path |-> i]

WroteFor(i) == \E k \in 1..Len(written) : written[k].path = i

\* What the batch has to have done when it is over.
BatchOutcome ==
    \A i \in PathIndices :
        /\ paths[i].has_extension => i \in attempted
        /\ ~paths[i].has_extension => (i \notin attempted /\ ~WroteFor(i))
        /\ (paths[i].has_extension /\ paths[i].func_raises) =>
               (WarnedAbout(i) /\ ~WroteFor(i))
        /\ (paths[i].has_extension /\ ~paths[i].func_raises) =>
               /\ ~WarnedAbout(i)
               /\ \E k \in 1..Len(written) :
                     written[k] = [output_filepath |-> <<paths[i].stem, ".mm.json">>,
                                   path |-> i]

\* C7: whichever paths fail, the batch never aborts and comes to its end, and
\* then every path with a selected extension was attempted, every failing one
\* was skipped with a warning and no output, and every other one had its
\* output written.
C7_BatchIsolation ==
    /\ [](d_pc # "raised")
    /\ <>(d_pc = "done")
    /\ [](d_pc = "done" => BatchOutcome)

\* C7 witness: a finished batch in which a path failed and a later path had
\* its output written.
C7_Witness ==
    /\ d_pc = "done"
    /\ \E i, j \in PathIndices :
          /\ i < j
          /\ paths[i].has_extension /\ paths[i].func_raises
          /\ paths[j].has_extension /\ ~paths[j].func_raises
          /\ WarnedAbout(i)
          /\ WroteFor(j)

(***************************************************************************)
(* Properties of measures_df2measure_map                                   *)
(***************************************************************************)
\* The timeline value of row i: that of quarterbeats_all_endings when the
\* table has the column, that of quarterbeats otherwise.
TimelineValue(i) ==
    IF "quarterbeats_all_endings" \in measures_df.columns
    THEN measures_df.rows[i].quarterbeats_all_endings
    ELSE measures_df.rows[i].quarterbeats

\* C9: once measures_df2measure_map has ended, a table in which some row's
\* timeline value is missing has raised an error naming the timeline column
\* and given no map; a map that was returned has every row's timeline value
\* as its qstamp.  The timeline column is quarterbeats_all_endings when the
\* table has it and quarterbeats otherwise.
C9_MissingTimeline ==
    c_pc \in {"done", "raised"} =>
        /\ (\E i \in 1..Len(measures_df.rows) : TimelineValue(i) = NA) =>
               /\ c_pc = "raised"
               /\ c_result = NoMap
               /\ c_error.column = (IF "quarterbeats_all_endings" \in measures_df.columns
                                THEN "quarterbeats_all_endings" ELSE "quarterbeats")
        /\ c_pc = "done" =>
               /\ Len(c_result) = Len(measures_df.rows)
               /\ \A i \in 1..Len(c_result) :
                     c_result[i].qstamp = ToFloat(TimelineValue(i))

\* C9 witness: a table with the quarterbeats_all_endings column, complete in
\* quarterbeats and missing a value in quarterbeats_all_endings, was refused.
C9_Witness ==
    /\ c_pc = "raised"
    /\ "quarterbeats_all_endings" \in measures_df.columns
    /\ \A i \in 1..Len(measures_df.rows) : measures_df.rows[i].quarterbeats # NA
    /\ \E i \in 1..Len(measures_df.rows) :
          measures_df.rows[i].quarterbeats_all_endings = NA

====
